---- MODULE Spec2Model ----
(***************************************************************************)
(* Model of integrations/helm/release/release.go: the Release type that    *)
(* installs, upgrades, deletes and queries helm releases through a tiller  *)
(* client (HelmClient) and annotates the resources of a release with       *)
(* kubectl.                                                                *)
(*                                                                         *)
(* The release store behind HelmClient is external; it is modelled as a    *)
(* map from release name to record, and every round trip to it can fail    *)
(* (the `fault` input of an action).  A method of Release is one action    *)
(* per blocking call it makes after its first: Delete is canDelete then    *)
(* the purge, Install is the store mutation then the kubectl run.          *)
(***************************************************************************)
EXTENDS Integers, Sequences, FiniteSets, TLC

\* ---------------------------------------------------------------- bounds
NumProcs == 2
MaxCalls == 2
MaxListLen == 2

Procs == 1..NumProcs
Ids == {"relA", "relB"}
Namespaces == {"", "ns1"}
ChartPaths == {"", "c1"}
FhrNames == {"fhr1"}
RepoDir == "repo"

\* ------------------------------------------------- constants of the code
InstallAction == "CREATE"
UpgradeAction == "UPDATE"
Actions == {InstallAction, UpgradeAction, "DELETE"}

Status_UNKNOWN == 0
Status_DEPLOYED == 1
Status_DELETED == 2
Status_SUPERSEDED == 3
Status_FAILED == 4
Status_DELETING == 5
Status_PENDING_INSTALL == 6
Status_PENDING_UPGRADE == 7
Status_PENDING_ROLLBACK == 8

StatusCodes == Status_UNKNOWN..Status_PENDING_ROLLBACK

\* status.Code.String()
CodeString(code) ==
    << "UNKNOWN", "DEPLOYED", "DELETED", "SUPERSEDED", "FAILED", "DELETING",
       "PENDING_INSTALL", "PENDING_UPGRADE", "PENDING_ROLLBACK" >>[code + 1]

\* r.config.ChartsPath
ChartsPath == "charts"

\* ------------------------------------------------------------ error values
Nil == [kind |-> "nil", arg |-> "", name |-> ""]

\* fmt.Errorf(ErrChartGitPathMissing, fhr.GetName())
ErrChartGitPathMissing(fhrName) ==
    [kind |-> "ChartGitPathMissing", arg |-> fhrName, name |-> ""]

\* the error of fhr.Spec.Values.YAML()
ErrYAML == [kind |-> "yaml", arg |-> "", name |-> ""]

\* fmt.Errorf("Valid install options: CREATE, UPDATE. Provided: %s", action)
ErrInvalidAction(action) ==
    [kind |-> "ValidInstallOptions", arg |-> action, name |-> ""]

\* fmt.Errorf("Release (%s) with status %s cannot be deleted", name, status)
ErrCannotDelete(name, status) ==
    [kind |-> "CannotDelete", arg |-> status, name |-> name]

\* an error returned by the tiller client
ErrStore(what, name) == [kind |-> "store", arg |-> what, name |-> name]

\* the error of cmd.CombinedOutput(): a non-zero exit, or the kill on timeout
ErrKubectl(what) == [kind |-> "kubectl", arg |-> what, name |-> ""]

\* the error a go-kit logger returns when it cannot write
ErrLog == [kind |-> "log", arg |-> "", name |-> ""]

\* ---------------------------------------------------------- release store
NoManifest == << >>
Absent == [present |-> FALSE, code |-> Status_UNKNOWN, manifest |-> NoManifest]
Stored(code, manifest) == [present |-> TRUE, code |-> code, manifest |-> manifest]

\* *hapi_release.Release
NoRelease == [isNil |-> TRUE, name |-> "", code |-> Status_UNKNOWN, manifest |-> NoManifest]
ReleaseOf(name, rec) ==
    [isNil |-> FALSE, name |-> name, code |-> rec.code, manifest |-> rec.manifest]

\* filepath.Join(repoDir, r.config.ChartsPath, chartPath)
ChartDirJoin(repoDir, chartPath) == << repoDir, ChartsPath, chartPath >>

\* ------------------------------------------ the tiller client (HelmClient)
\* Each operation is one round trip: `fault` is the round trip failing, and
\* the result is [err, rel, store], store being the store after the call.
\* A name the store has no record of is an error of the store ("not found").

\* r.HelmClient.ReleaseStatus(name)
ReleaseStatus(st, name, fault) ==
    IF fault THEN [err |-> ErrStore("unavailable", name), rel |-> NoRelease, store |-> st]
    ELSE IF ~st[name].present
    THEN [err |-> ErrStore("not found", name), rel |-> NoRelease, store |-> st]
    ELSE [err |-> Nil, rel |-> ReleaseOf(name, st[name]), store |-> st]

\* r.HelmClient.ReleaseContent(name)
ReleaseContent(st, name, fault) ==
    IF fault THEN [err |-> ErrStore("unavailable", name), rel |-> NoRelease, store |-> st]
    ELSE IF ~st[name].present
    THEN [err |-> ErrStore("not found", name), rel |-> NoRelease, store |-> st]
    ELSE [err |-> Nil, rel |-> ReleaseOf(name, st[name]), store |-> st]

\* r.HelmClient.InstallRelease(chartDir, namespace, ValueOverrides,
\*     ReleaseName(releaseName), InstallDryRun(dryRun), InstallReuseName(reuse))
InstallRelease(st, chartDir, name, dryRun, reuseName, fault) ==
    IF fault THEN [err |-> ErrStore("unavailable", name), rel |-> NoRelease, store |-> st]
    ELSE IF st[name].present /\ ~reuseName
    THEN [err |-> ErrStore("name in use", name), rel |-> NoRelease, store |-> st]
    ELSE LET rec == Stored(Status_DEPLOYED, chartDir)
         IN  [err |-> Nil, rel |-> ReleaseOf(name, rec),
              store |-> IF dryRun THEN st ELSE [st EXCEPT ![name] = rec]]

\* r.HelmClient.UpdateRelease(releaseName, chartDir, UpdateValueOverrides,
\*     UpgradeDryRun(dryRun))
UpdateRelease(st, name, chartDir, dryRun, fault) ==
    IF fault THEN [err |-> ErrStore("unavailable", name), rel |-> NoRelease, store |-> st]
    ELSE IF ~st[name].present
    THEN [err |-> ErrStore("not found", name), rel |-> NoRelease, store |-> st]
    ELSE LET rec == Stored(Status_DEPLOYED, chartDir)
         IN  [err |-> Nil, rel |-> ReleaseOf(name, rec),
              store |-> IF dryRun THEN st ELSE [st EXCEPT ![name] = rec]]

\* r.HelmClient.DeleteRelease(name, k8shelm.DeletePurge(true))
DeleteRelease(st, name, fault) ==
    IF fault THEN [err |-> ErrStore("unavailable", name), rel |-> NoRelease, store |-> st]
    ELSE IF ~st[name].present
    THEN [err |-> ErrStore("not found", name), rel |-> NoRelease, store |-> st]
    ELSE [err |-> Nil, rel |-> ReleaseOf(name, st[name]),
          store |-> [st EXCEPT ![name] = Absent]]

\* ------------------------------------------------ the code's pure decisions

\* GetReleaseName without the default of the namespace
GetReleaseNameNoDefault(fhr) ==
    IF fhr.ReleaseName = "" THEN fhr.Namespace \o "-" \o fhr.Name
    ELSE fhr.ReleaseName

\* func GetReleaseName(fhr ifv1.FluxHelmRelease) string
GetReleaseName(fhr) ==
    LET namespace == IF fhr.Namespace = "" THEN "default" ELSE fhr.Namespace
        releaseName == fhr.ReleaseName
    IN  IF releaseName = "" THEN namespace \o "-" \o fhr.Name  \* Sprintf("%s-%s")
        ELSE releaseName

\* GetDeployedRelease without its test of the status code
GetDeployedReleaseAnyStatus(resp) ==
    IF resp.err # Nil THEN [rel |-> NoRelease, err |-> resp.err]
    ELSE [rel |-> resp.rel, err |-> Nil]

\* The body of GetDeployedRelease after the content query: (release, error).
GetDeployedReleaseResult(resp) ==
    IF resp.err # Nil THEN [rel |-> NoRelease, err |-> resp.err]
    ELSE IF resp.rel.code = Status_DEPLOYED THEN [rel |-> resp.rel, err |-> Nil]
    ELSE [rel |-> NoRelease, err |-> Nil]

\* canDelete taking a failed status query for a release already deleted
canDeleteSwallowsError(name, resp) ==
    IF resp.err # Nil THEN [ok |-> FALSE, err |-> Nil]
    ELSE CASE resp.rel.code \in {1, 4} -> [ok |-> TRUE, err |-> Nil]
           [] resp.rel.code = 2 -> [ok |-> FALSE, err |-> Nil]
           [] OTHER -> [ok |-> FALSE,
                        err |-> ErrCannotDelete(name, CodeString(resp.rel.code))]

\* canDelete with `case 1, 4, 5`: a release being deleted counted deletable
canDeleteWhileDeleting(name, resp) ==
    IF resp.err # Nil THEN [ok |-> FALSE, err |-> resp.err]
    ELSE CASE resp.rel.code \in {1, 4, 5} -> [ok |-> TRUE, err |-> Nil]
           [] resp.rel.code = 2 -> [ok |-> FALSE, err |-> Nil]
           [] OTHER -> [ok |-> FALSE,
                        err |-> ErrCannotDelete(name, CodeString(resp.rel.code))]

\* canDelete with `case 1, 3` for `case 1, 4`
canDeleteWrongCase(name, resp) ==
    IF resp.err # Nil THEN [ok |-> FALSE, err |-> resp.err]
    ELSE CASE resp.rel.code \in {1, 3} -> [ok |-> TRUE, err |-> Nil]
           [] resp.rel.code = 2 -> [ok |-> FALSE, err |-> Nil]
           [] OTHER -> [ok |-> FALSE,
                        err |-> ErrCannotDelete(name, CodeString(resp.rel.code))]

\* The body of canDelete after the status query: (bool, error).
canDelete(name, resp) ==
    IF resp.err # Nil THEN [ok |-> FALSE, err |-> resp.err]
    ELSE CASE resp.rel.code \in {1, 4} -> [ok |-> TRUE, err |-> Nil]
           [] resp.rel.code = 2 -> [ok |-> FALSE, err |-> Nil]
           [] OTHER -> [ok |-> FALSE,
                        err |-> ErrCannotDelete(name, CodeString(resp.rel.code))]

\* Install without its test of the chart path
InstallPrecheckNoPath(fhr) ==
    IF ~fhr.ValuesOK THEN ErrYAML ELSE Nil

\* What Install does before it reaches the store: the error it returns with
\* no store call, or Nil when it goes on to the switch on action.
InstallPrecheck(fhr) ==
    IF fhr.ChartGitPath = "" THEN ErrChartGitPathMissing(fhr.Name)
    ELSE IF ~fhr.ValuesOK THEN ErrYAML
    ELSE Nil

\* Install's switch with the create as its default branch
InstallDispatchDefaultCreate(st, name, fhr, action, opts, fault) ==
    LET chartDir == ChartDirJoin(RepoDir, fhr.ChartGitPath)
    IN  CASE action = UpgradeAction ->
               [issued |-> TRUE, create |-> 0, update |-> 1,
                resp |-> UpdateRelease(st, name, chartDir, opts.DryRun, fault)]
          [] OTHER ->
               [issued |-> TRUE, create |-> 1, update |-> 0,
                resp |-> InstallRelease(st, chartDir, name, opts.DryRun, opts.ReuseName, fault)]

\* Install's switch trying a failed create or update a second time
InstallDispatchRetry(st, name, fhr, action, opts, fault) ==
    LET chartDir == ChartDirJoin(RepoDir, fhr.ChartGitPath)
    IN  CASE action = InstallAction ->
               LET first == InstallRelease(st, chartDir, name, opts.DryRun, opts.ReuseName, fault)
               IN  IF first.err = Nil
                   THEN [issued |-> TRUE, create |-> 1, update |-> 0, resp |-> first]
                   ELSE [issued |-> TRUE, create |-> 2, update |-> 0,
                         resp |-> InstallRelease(st, chartDir, name, opts.DryRun,
                                                 opts.ReuseName, fault)]
          [] action = UpgradeAction ->
               LET first == UpdateRelease(st, name, chartDir, opts.DryRun, fault)
               IN  IF first.err = Nil
                   THEN [issued |-> TRUE, create |-> 0, update |-> 1, resp |-> first]
                   ELSE [issued |-> TRUE, create |-> 0, update |-> 2,
                         resp |-> UpdateRelease(st, name, chartDir, opts.DryRun, fault)]
          [] OTHER ->
               [issued |-> FALSE, create |-> 0, update |-> 0,
                resp |-> [err |-> ErrInvalidAction(action), rel |-> NoRelease, store |-> st]]

\* The store call Install's switch on action issues:
\* [issued, create, update, resp], or the default branch's error.
InstallDispatch(st, name, fhr, action, opts, fault) ==
    LET chartDir == ChartDirJoin(RepoDir, fhr.ChartGitPath)
    IN  CASE action = InstallAction ->
               [issued |-> TRUE, create |-> 1, update |-> 0,
                resp |-> InstallRelease(st, chartDir, name, opts.DryRun, opts.ReuseName, fault)]
          [] action = UpgradeAction ->
               [issued |-> TRUE, create |-> 0, update |-> 1,
                resp |-> UpdateRelease(st, name, chartDir, opts.DryRun, fault)]
          [] OTHER ->
               [issued |-> FALSE, create |-> 0, update |-> 0,
                resp |-> [err |-> ErrInvalidAction(action), rel |-> NoRelease, store |-> st]]

\* Install going on after a failed store call
StoreCallFailedIgnored(resp) == FALSE

\* `if err != nil { ...; return nil, err }` after the create or the update
StoreCallFailed(resp) == resp.err # Nil

\* the annotation without the test of opts.DryRun
ShouldAnnotateAlways(opts) == TRUE

\* `if !opts.DryRun { err = r.annotateResources(res.Release, fhr) }`
ShouldAnnotate(opts) == ~opts.DryRun

\* GetCurrent's loop putting each release in front of its namespace's slice
RECURSIVE GroupByNamespacePrepend(_, _)
GroupByNamespacePrepend(releases, relsM) ==
    IF releases = << >> THEN relsM
    ELSE LET r == Head(releases)
             ns == r.Namespace
             depl == IF ns \in DOMAIN relsM THEN relsM[ns] ELSE << >>
             next == [k \in (DOMAIN relsM) \cup {ns} |->
                         IF k = ns THEN << [Name |-> r.Name] >> \o depl ELSE relsM[k]]
         IN  GroupByNamespacePrepend(Tail(releases), next)

\* The loop of GetCurrent over response.GetReleases(): map[namespace][]DeployInfo
RECURSIVE GroupByNamespace(_, _)
GroupByNamespace(releases, relsM) ==
    IF releases = << >> THEN relsM
    ELSE LET r == Head(releases)
             ns == r.Namespace
             depl == IF ns \in DOMAIN relsM THEN relsM[ns] ELSE << >>
             next == [k \in (DOMAIN relsM) \cup {ns} |->
                         IF k = ns THEN Append(depl, [Name |-> r.Name]) ELSE relsM[k]]
         IN  GroupByNamespace(Tail(releases), next)

EmptyMap == [k \in {} |-> << >>]

\* `return nil, r.logger.Log("error", err)`: the error returned is the logger's
GetCurrentError(listErr, logErr) == logErr

\* GetCurrent after the list call: (map, error)
GetCurrentResult(listErr, releases, logErr) ==
    IF listErr # Nil
    THEN [isNil |-> TRUE, m |-> EmptyMap, err |-> GetCurrentError(listErr, logErr)]
    ELSE [isNil |-> FALSE, m |-> GroupByNamespace(releases, EmptyMap), err |-> Nil]

\* The kubectl run of annotateResources, under context.WithTimeout: the error
\* of cmd.CombinedOutput() for each way the run can end.
annotateResources(outcome) ==
    CASE outcome = "exit 0" -> Nil
      [] outcome = "exit 1" -> ErrKubectl("exit status 1")
      [] OTHER -> ErrKubectl("signal: killed")

\* `return nil, err` when the annotation failed
InstallReturnNilOnError(rel, err) ==
    [rel |-> IF err # Nil THEN NoRelease ELSE rel, err |-> err]

\* `return res.Release, err` after the annotation
InstallReturn(rel, err) == [rel |-> rel, err |-> err]

\* Delete reporting every refusal of canDelete as an error
DeleteRefusedAlwaysError(can) ==
    IF can.err # Nil THEN can.err ELSE ErrCannotDelete("", "DELETED")

\* Delete after canDelete said no: `if err != nil { return err }; return nil`
DeleteRefused(can) == can.err

\* ------------------------------------------------------------------- state
VARIABLES
    store,      \* the release store: release name -> record
    pc,         \* where each caller is: "idle", "purge" (Delete between its
                \* status query and its purge), "annotating" (Install while
                \* kubectl runs)
    frame,      \* the call each caller is in
    ret,        \* the call that returned last, with what it returned
    deletedOk,  \* per name: the last change of the release was a Delete that
                \* returned nil
    calls,      \* calls started so far
    active,     \* the callers that make calls
    names,      \* the release names the calls are made for
    naming      \* GetReleaseName: two FluxHelmReleases and the names given them

\* what no method of Release changes
config == << active, names, naming >>
vars == << store, pc, frame, ret, deletedOk, calls, active, names, naming >>

NoSeen == [err |-> Nil, rel |-> NoRelease]
NoList == [isNil |-> TRUE, m |-> EmptyMap]
NoFhr == [Name |-> "", ChartGitPath |-> "", ValuesOK |-> TRUE]
NoOpts == [DryRun |-> FALSE, ReuseName |-> FALSE]

\* The record of a call: its arguments, the store calls it made and what it
\* returned (rel, ok, list, err).
NewCall(p, op, name) ==
    [proc |-> p, op |-> op, name |-> name,
     fhr |-> NoFhr, action |-> "", opts |-> NoOpts,
     seen |-> NoSeen,          \* the answer of the status or content query
     faulted |-> FALSE,        \* a round trip of the call failed
     sent |-> "none",          \* Install: the create or update was "ok" or an "err"
     again |-> FALSE,          \* Delete: deletedOk[name] held when it started
     after |-> Absent,         \* Install: the store's record the mutation left
     listed |-> << >>,         \* GetCurrent: the releases the store listed
     atPurge |-> Absent,       \* Delete: the store's record the purge found
     purgeErr |-> Nil,         \* Delete: the error of the purge
     creates |-> 0, updates |-> 0, purges |-> 0, annots |-> 0,
     rel |-> NoRelease, ok |-> FALSE, list |-> NoList, err |-> Nil]

NoCall == NewCall(0, "none", "")

NoNamedFhr == [Namespace |-> "", Name |-> "", ReleaseName |-> ""]
NoNaming == [fhr |-> [w \in {"a", "b"} |-> NoNamedFhr],
             id |-> [w \in {"a", "b"} |-> ""],
             named |-> [w \in {"a", "b"} |-> FALSE]]

Fhrs == [Name : FhrNames, ChartGitPath : ChartPaths, ValuesOK : BOOLEAN]
Opts == [DryRun : BOOLEAN, ReuseName : BOOLEAN]

ListNamespaces == {"default", "ns1"}
ListRecords == [Name : Ids, Namespace : ListNamespaces]
ListResponses == UNION {[1..n -> ListRecords] : n \in 0..MaxListLen}

InitialManifest == ChartDirJoin(RepoDir, "c0")

Init ==
    /\ store \in [Ids -> {Absent} \cup {Stored(c, InitialManifest) : c \in StatusCodes}]
    /\ pc = [p \in Procs |-> "idle"]
    /\ frame = [p \in Procs |-> NoCall]
    /\ ret = NoCall
    /\ deletedOk = [n \in Ids |-> FALSE]
    /\ calls = 0
    /\ active = {1}
    /\ names = {"relA"}
    /\ naming = NoNaming

CanStart(p) == p \in active /\ pc[p] = "idle" /\ calls < MaxCalls

\* A change of the release `name` by caller p: the Delete calls of the other
\* callers on that name no longer follow a successful Delete directly.
Disturb(fr, p, name) ==
    [q \in Procs |->
        IF q # p /\ fr[q].name = name THEN [fr[q] EXCEPT !.again = FALSE] ELSE fr[q]]

\* ----------------------------------------------------------------- actions

\* func (r *Release) GetDeployedRelease(name string)
GetDeployedReleaseCall(p, name, fault) ==
    /\ CanStart(p)
    /\ LET resp == ReleaseContent(store, name, fault)
           res == GetDeployedReleaseResult(resp)
       IN  /\ ret' = [NewCall(p, "GetDeployedRelease", name) EXCEPT
                         !.seen = [err |-> resp.err, rel |-> resp.rel],
                         !.faulted = fault,
                         !.rel = res.rel, !.err = res.err]
           /\ store' = resp.store
    /\ calls' = calls + 1
    /\ UNCHANGED << pc, frame, deletedOk, config >>

\* canDelete purging the release it finds deletable
CanDeleteCallPurges(p, name, fault) ==
    /\ CanStart(p)
    /\ LET resp == ReleaseStatus(store, name, fault)
           can == canDelete(name, resp)
       IN  /\ ret' = [NewCall(p, "canDelete", name) EXCEPT
                         !.seen = [err |-> resp.err, rel |-> resp.rel],
                         !.faulted = fault,
                         !.ok = can.ok, !.err = can.err]
           /\ store' = IF can.ok THEN DeleteRelease(store, name, FALSE).store
                       ELSE resp.store
    /\ calls' = calls + 1
    /\ UNCHANGED << pc, frame, deletedOk, config >>

\* func (r *Release) canDelete(name string)
CanDeleteCall(p, name, fault) ==
    /\ CanStart(p)
    /\ LET resp == ReleaseStatus(store, name, fault)
           can == canDelete(name, resp)
       IN  /\ ret' = [NewCall(p, "canDelete", name) EXCEPT
                         !.seen = [err |-> resp.err, rel |-> resp.rel],
                         !.faulted = fault,
                         !.ok = can.ok, !.err = can.err]
           /\ store' = resp.store
    /\ calls' = calls + 1
    /\ UNCHANGED << pc, frame, deletedOk, config >>

\* func (r *Release) Delete(name string), up to the return after canDelete
DeleteCall(p, name, fault) ==
    /\ CanStart(p)
    /\ calls' = calls + 1
    /\ UNCHANGED config
    /\ LET resp == ReleaseStatus(store, name, fault)
           can == canDelete(name, resp)
           c == [NewCall(p, "Delete", name) EXCEPT
                    !.seen = [err |-> resp.err, rel |-> resp.rel],
                    !.faulted = fault,
                    !.again = deletedOk[name], !.ok = can.ok]
       IN  /\ store' = resp.store
           /\ IF ~can.ok
              THEN /\ ret' = [c EXCEPT !.err = DeleteRefused(can)]
                   /\ deletedOk' = [deletedOk EXCEPT ![name] = (DeleteRefused(can) = Nil)]
                   /\ UNCHANGED << pc, frame >>
              ELSE /\ pc' = [pc EXCEPT ![p] = "purge"]
                   /\ frame' = [frame EXCEPT ![p] = c]
                   /\ UNCHANGED << ret, deletedOk >>

\* Delete purging the name of the call that returned last: a name kept in a
\* field the calls share, not in the call
DeletePurgeSharedName(p, fault) ==
    /\ pc[p] = "purge"
    /\ LET name == IF ret.name \in Ids THEN ret.name ELSE frame[p].name
           resp == DeleteRelease(store, name, fault)
       IN  /\ store' = resp.store
           /\ ret' = [frame[p] EXCEPT !.purges = @ + 1,
                         !.atPurge = store[name], !.purgeErr = resp.err,
                         !.faulted = @ \/ fault, !.err = resp.err]
           /\ deletedOk' = [deletedOk EXCEPT ![name] = (resp.err = Nil)]
           /\ frame' = [IF resp.err = Nil THEN Disturb(frame, p, name) ELSE frame
                           EXCEPT ![p] = NoCall]
    /\ pc' = [pc EXCEPT ![p] = "idle"]
    /\ UNCHANGED << calls, config >>

\* Delete, from r.HelmClient.DeleteRelease to the return
DeletePurge(p, fault) ==
    /\ pc[p] = "purge"
    /\ LET name == frame[p].name
           resp == DeleteRelease(store, name, fault)
       IN  /\ store' = resp.store
           /\ ret' = [frame[p] EXCEPT !.purges = @ + 1,
                         !.atPurge = store[name], !.purgeErr = resp.err,
                         !.faulted = @ \/ fault, !.err = resp.err]
           /\ deletedOk' = [deletedOk EXCEPT ![name] = (resp.err = Nil)]
           /\ frame' = [IF resp.err = Nil THEN Disturb(frame, p, name) ELSE frame
                           EXCEPT ![p] = NoCall]
    /\ pc' = [pc EXCEPT ![p] = "idle"]
    /\ UNCHANGED << calls, config >>

\* func (r *Release) Install(repoDir, releaseName, fhr, action, opts), up to
\* the call of annotateResources or the return before it
InstallCall(p, name, fhr, action, opts, fault) ==
    /\ CanStart(p)
    /\ calls' = calls + 1
    /\ UNCHANGED config
    /\ LET c == [NewCall(p, "Install", name) EXCEPT
                    !.fhr = fhr, !.action = action, !.opts = opts, !.after = store[name]]
           pre == InstallPrecheck(fhr)
           d == InstallDispatch(store, name, fhr, action, opts, fault)
           sent == [c EXCEPT !.creates = d.create, !.updates = d.update,
                       !.faulted = d.issued /\ fault, !.after = d.resp.store[name],
                       !.sent = IF ~d.issued THEN "none"
                                ELSE IF d.resp.err = Nil THEN "ok" ELSE "err"]
       IN  IF pre # Nil
           THEN /\ ret' = [c EXCEPT !.err = pre]
                /\ UNCHANGED << store, pc, frame, deletedOk, config >>
           ELSE IF ~d.issued \/ StoreCallFailed(d.resp)
           THEN /\ ret' = [sent EXCEPT !.err = d.resp.err]
                /\ store' = d.resp.store
                /\ UNCHANGED << pc, frame, deletedOk, config >>
           ELSE /\ store' = d.resp.store
                /\ deletedOk' = IF opts.DryRun THEN deletedOk
                                ELSE [deletedOk EXCEPT ![name] = FALSE]
                /\ IF ShouldAnnotate(opts)
                   THEN /\ pc' = [pc EXCEPT ![p] = "annotating"]
                        /\ frame' = [IF opts.DryRun THEN frame ELSE Disturb(frame, p, name)
                                        EXCEPT ![p] = [sent EXCEPT !.rel = d.resp.rel,
                                                                   !.annots = @ + 1]]
                        /\ UNCHANGED ret
                   ELSE /\ ret' = [sent EXCEPT !.rel = d.resp.rel, !.err = Nil]
                        /\ frame' = IF opts.DryRun THEN frame ELSE Disturb(frame, p, name)
                        /\ UNCHANGED pc

\* annotateResources with exec.Command for exec.CommandContext: no deadline,
\* the call returns only when kubectl ends on its own
AnnotateDoneNoTimeout(p, outcome) ==
    /\ pc[p] = "annotating"
    /\ outcome # "timeout"
    /\ LET r == InstallReturn(frame[p].rel, annotateResources(outcome))
       IN  ret' = [frame[p] EXCEPT !.rel = r.rel, !.err = r.err]
    /\ pc' = [pc EXCEPT ![p] = "idle"]
    /\ frame' = [frame EXCEPT ![p] = NoCall]
    /\ UNCHANGED << store, deletedOk, calls, config >>

\* annotateResources: kubectl ends (exit 0, exit 1) or the 20 s context
\* expires and the process is killed; Install returns (res.Release, err)
AnnotateDone(p, outcome) ==
    /\ pc[p] = "annotating"
    /\ LET r == InstallReturn(frame[p].rel, annotateResources(outcome))
       IN  ret' = [frame[p] EXCEPT !.rel = r.rel, !.err = r.err]
    /\ pc' = [pc EXCEPT ![p] = "idle"]
    /\ frame' = [frame EXCEPT ![p] = NoCall]
    /\ UNCHANGED << store, deletedOk, calls, config >>

\* func (r *Release) GetCurrent()
GetCurrentCall(p, listFault, releases, logFails) ==
    /\ CanStart(p)
    /\ calls' = calls + 1
    /\ LET listErr == IF listFault THEN ErrStore("unavailable", "") ELSE Nil
           logErr == IF logFails THEN ErrLog ELSE Nil
           res == GetCurrentResult(listErr, releases, logErr)
       IN  ret' = [NewCall(p, "GetCurrent", "") EXCEPT
                      !.faulted = listFault, !.listed = releases,
                      !.list = [isNil |-> res.isNil, m |-> res.m], !.err = res.err]
    /\ UNCHANGED << store, pc, frame, deletedOk, config >>

Next ==
    \/ \E p \in Procs, n \in names, f \in BOOLEAN : GetDeployedReleaseCall(p, n, f)
    \/ \E p \in Procs, n \in names, f \in BOOLEAN : CanDeleteCall(p, n, f)
    \/ \E p \in Procs, n \in names, f \in BOOLEAN : DeleteCall(p, n, f)
    \/ \E p \in Procs, f \in BOOLEAN : DeletePurge(p, f)
    \/ \E p \in Procs, n \in names, fhr \in Fhrs, a \in Actions, o \in Opts, f \in BOOLEAN :
           InstallCall(p, n, fhr, a, o, f)
    \/ \E p \in Procs, out \in {"exit 0", "exit 1", "timeout"} : AnnotateDone(p, out)
    \/ \E p \in Procs, r \in ListResponses : GetCurrentCall(p, FALSE, r, FALSE)
    \/ \E p \in Procs, l \in BOOLEAN : GetCurrentCall(p, TRUE, << >>, l)

Spec == Init /\ [][Next]_vars

\* ------------------------------------------------------------------ claims

ValidActions == {InstallAction, UpgradeAction}

\* the names of the statuses that block a delete, as the status table gives them
BlockingStatusName ==
    [c \in {0, 3, 5, 6, 7, 8} |->
        CASE c = 0 -> "UNKNOWN" [] c = 3 -> "SUPERSEDED" [] c = 5 -> "DELETING"
          [] c = 6 -> "PENDING_INSTALL" [] c = 7 -> "PENDING_UPGRADE"
          [] OTHER -> "PENDING_ROLLBACK"]

\* C1: when the status query succeeds, canDelete returns (true, nil) for a
\* deployed or failed release, (false, nil) for a deleted one and
\* (false, error) for every other status, the error naming that status.
C1_CanDeleteTable ==
    (ret.op = "canDelete" /\ ret.seen.err = Nil) =>
        LET code == ret.seen.rel.code
        IN  /\ code \in {Status_DEPLOYED, Status_FAILED} => (ret.ok /\ ret.err = Nil)
            /\ code = Status_DELETED => (~ret.ok /\ ret.err = Nil)
            /\ code \in DOMAIN BlockingStatusName =>
                   /\ ~ret.ok
                   /\ ret.err.kind = "CannotDelete"
                   /\ ret.err.arg = BlockingStatusName[code]
                   /\ ret.err.name = ret.name

C1_Witness ==
    /\ ret.op = "canDelete" /\ ret.seen.err = Nil
    /\ ret.seen.rel.code = Status_PENDING_UPGRADE
    /\ ret.err.arg = "PENDING_UPGRADE"

\* C2: a Delete whose status query reports deleted returns nil and issues no
\* purge: it returns with no purge counted, and no Delete waits to purge a
\* release it saw deleted.
C2_DeleteOfDeleted ==
    /\ (ret.op = "Delete" /\ ret.seen.err = Nil /\ ret.seen.rel.code = Status_DELETED) =>
           (ret.err = Nil /\ ret.purges = 0)
    /\ \A p \in Procs :
           pc[p] = "purge" =>
               ~(frame[p].seen.err = Nil /\ frame[p].seen.rel.code = Status_DELETED)

C2_Witness ==
    /\ ret.op = "Delete" /\ ret.seen.err = Nil
    /\ ret.seen.rel.code = Status_DELETED
    /\ ret.err = Nil /\ ret.purges = 0
    /\ store[ret.name].present

\* C3: a Delete that follows a Delete of the same name that returned nil,
\* with no other change of the release in between and no failing round trip,
\* returns nil as well.
C3_DeleteIdempotent ==
    (ret.op = "Delete" /\ ret.again /\ ~ret.faulted) => ret.err = Nil

\* C4: an Install or Upgrade whose store call succeeds runs the annotation
\* never when dryRun is set and exactly once when it is not.
C4_AnnotateUnlessDryRun ==
    /\ (ret.op = "Install" /\ ret.sent = "ok") =>
           /\ ret.action \in ValidActions
           /\ ret.annots = (IF ret.opts.DryRun THEN 0 ELSE 1)
    /\ \A p \in Procs :
           /\ pc[p] = "annotating" =>
                  (frame[p].sent = "ok" /\ ~frame[p].opts.DryRun /\ frame[p].annots = 1)
           /\ pc[p] = "idle" => frame[p] = NoCall

C4_Witness ==
    /\ ret.op = "Install" /\ ret.sent = "ok" /\ ret.action = UpgradeAction
    /\ ~ret.opts.DryRun /\ ret.annots = 1

\* An Install call of caller p returns from kubectl in this step.
AnnotationReturns(p) == pc[p] = "annotating" /\ pc'[p] = "idle"

\* C5: when the annotation fails after a successful store call, Install
\* returns the release and the annotation error, makes no further store call,
\* and the store keeps the release as the create or update left it.
C5_AnnotationFailureKeepsRelease ==
    [][\A p \in Procs :
          (AnnotationReturns(p) /\ ret'.err # Nil) =>
              /\ ret'.err.kind = "kubectl"
              /\ ~ret'.rel.isNil
              /\ ret'.rel = ReleaseOf(ret'.name, ret'.after)
              /\ ret'.creates + ret'.updates = 1 /\ ret'.purges = 0
              /\ store' = store
              /\ store'[ret'.name] = ret'.after]_vars

C5_Witness ==
    /\ ret.op = "Install" /\ ret.err.kind = "kubectl" /\ ret.err.arg = "exit status 1"
    /\ ~ret.rel.isNil
    /\ store[ret.name] = Stored(Status_DEPLOYED, ChartDirJoin(RepoDir, "c1"))

\* The call that starts in this step: it has returned, or it waits for its
\* second round trip in the frame of its caller.
CallStarts == calls' # calls
StartedCall ==
    IF \E p \in Procs : pc[p] = "idle" /\ pc'[p] # "idle"
    THEN frame'[CHOOSE p \in Procs : pc[p] = "idle" /\ pc'[p] # "idle"]
    ELSE ret'

\* C6: Install with an empty chart path returns, whatever the action and the
\* options, the error naming the FluxHelmRelease and no release, and makes no
\* store call and no annotation.
C6_EmptyChartPath ==
    [][(CallStarts /\ StartedCall.op = "Install" /\ StartedCall.fhr.ChartGitPath = "") =>
          /\ pc' = pc /\ frame' = frame
          /\ ret'.err.kind = "ChartGitPathMissing" /\ ret'.err.arg = ret'.fhr.Name
          /\ ret'.rel.isNil
          /\ ret'.creates = 0 /\ ret'.updates = 0 /\ ret'.annots = 0
          /\ store' = store]_vars

C6_Witness ==
    /\ ret.op = "Install" /\ ret.fhr.ChartGitPath = "" /\ ret.action = UpgradeAction
    /\ ret.opts.ReuseName /\ ret.err = ErrChartGitPathMissing("fhr1")

\* C7: Install with an action other than CREATE and UPDATE returns an error
\* and no release, and leaves the store as it was, with no annotation.
C7_InvalidAction ==
    [][(CallStarts /\ StartedCall.op = "Install" /\ StartedCall.action \notin ValidActions) =>
          /\ pc' = pc /\ frame' = frame
          /\ ret'.err # Nil
          /\ ret'.rel.isNil
          /\ ret'.creates = 0 /\ ret'.updates = 0 /\ ret'.annots = 0
          /\ store' = store]_vars

C7_Witness ==
    /\ ret.op = "Install" /\ ret.action = "DELETE" /\ ret.fhr.ChartGitPath = "c1"
    /\ ret.fhr.ValuesOK /\ ret.err.kind = "ValidInstallOptions"

\* C8: when the content query succeeds, GetDeployedRelease returns the
\* release exactly when its status is deployed, and (nil, nil) otherwise.
C8_OnlyDeployed ==
    (ret.op = "GetDeployedRelease" /\ ret.seen.err = Nil) =>
        /\ ret.err = Nil
        /\ ~ret.rel.isNil <=> ret.seen.rel.code = Status_DEPLOYED
        /\ ~ret.rel.isNil => ret.rel = ret.seen.rel

C8_Witness ==
    /\ ret.op = "GetDeployedRelease" /\ ret.seen.err = Nil
    /\ ret.seen.rel.code = Status_FAILED /\ ret.rel.isNil /\ ret.err = Nil

C8_WitnessDeployed ==
    /\ ret.op = "GetDeployedRelease" /\ ret.seen.err = Nil
    /\ ret.seen.rel.code = Status_DEPLOYED /\ ret.rel = ReleaseOf(ret.name, store[ret.name])

\* C9: when the content query fails because the store has no such release,
\* GetDeployedRelease returns (nil, nil).
C9_NotFoundIsAbsent ==
    (ret.op = "GetDeployedRelease" /\ ret.seen.err = ErrStore("not found", ret.name)) =>
        (ret.rel.isNil /\ ret.err = Nil)

\* C10: when the list call of the store fails, GetCurrent returns a non-nil
\* error.
C10_ListFailureIsError ==
    (ret.op = "GetCurrent" /\ ret.faulted) => ret.err # Nil

\* A well-formed Install: a chart path and value overrides that serialise.
WellFormedInstall(c) ==
    c.op = "Install" /\ c.fhr.ChartGitPath # "" /\ c.fhr.ValuesOK

\* one create and no update for CREATE, one update and no create for UPDATE
OneStoreCall(c) ==
    /\ c.action = InstallAction => (c.creates = 1 /\ c.updates = 0)
    /\ c.action = UpgradeAction => (c.creates = 0 /\ c.updates = 1)
    /\ c.action \in ValidActions => c.sent \in {"ok", "err"}

\* C15: a well-formed Install makes exactly one store call, a create for
\* CREATE and an update for UPDATE, whether that call succeeds or fails, and
\* that call touches no release but the one named.
C15_OneStoreCall ==
    /\ [](WellFormedInstall(ret) => OneStoreCall(ret))
    /\ [](\A p \in Procs : WellFormedInstall(frame[p]) => OneStoreCall(frame[p]))
    /\ [][(CallStarts /\ WellFormedInstall(StartedCall)) =>
             /\ OneStoreCall(StartedCall)
             /\ \A m \in Ids \ {StartedCall.name} : store'[m] = store[m]
             /\ store'[StartedCall.name] = StartedCall.after]_vars

C15_Witness ==
    /\ WellFormedInstall(ret) /\ ret.action = UpgradeAction /\ ret.sent = "err"
    /\ ret.updates = 1 /\ ret.creates = 0 /\ ret.faulted

\* C16: when the create or update fails, Install returns the store's error
\* and no release and runs no annotation; an annotation runs only in a call
\* whose create or update has succeeded.
C16_NoAnnotationAfterFailure ==
    /\ (ret.op = "Install" /\ ret.sent = "err") =>
           (ret.rel.isNil /\ ret.err.kind = "store" /\ ret.annots = 0)
    /\ (ret.op = "Install" /\ ret.annots > 0) => ret.sent = "ok"
    /\ \A p \in Procs :
           (pc[p] = "annotating" \/ frame[p].annots > 0) =>
               (frame[p].sent = "ok" /\ store[frame[p].name].present)

C16_Witness ==
    /\ ret.op = "Install" /\ ret.sent = "err" /\ ret.action = InstallAction
    /\ ~ret.opts.DryRun /\ ret.err = ErrStore("name in use", ret.name)
    /\ ret.rel.isNil /\ ret.annots = 0

\* C17: Delete issues the purge, once, exactly when its status query has
\* succeeded with deployed or failed; a failed status query or a blocking
\* status is returned as the error with no purge; a failed purge is returned
\* as the error.
C17_PurgeOnlyWhenDeletable ==
    /\ ret.op = "Delete" =>
           LET deletable == /\ ret.seen.err = Nil
                            /\ ret.seen.rel.code \in {Status_DEPLOYED, Status_FAILED}
           IN  /\ ret.purges \in {0, 1}
               /\ ret.purges = 1 <=> deletable
               /\ ret.seen.err # Nil => (ret.err = ret.seen.err /\ ret.err # Nil)
               /\ (ret.seen.err = Nil /\ ret.seen.rel.code \in DOMAIN BlockingStatusName) =>
                      ret.err.kind = "CannotDelete"
               /\ ret.purges = 1 => ret.err = ret.purgeErr
               /\ (ret.purges = 1 /\ ret.faulted) => ret.err.kind = "store"
    /\ \A p \in Procs :
           pc[p] = "purge" =>
               /\ frame[p].op = "Delete" /\ frame[p].purges = 0
               /\ frame[p].seen.err = Nil
               /\ frame[p].seen.rel.code \in {Status_DEPLOYED, Status_FAILED}

C17_Witness ==
    /\ ret.op = "Delete" /\ ret.purges = 1 /\ ret.faulted
    /\ ret.err = ErrStore("unavailable", ret.name)
    /\ ret.seen.rel.code = Status_FAILED
    /\ store[ret.name].present

C17_WitnessStatusFails ==
    /\ ret.op = "Delete" /\ ret.purges = 0
    /\ ret.seen.err = ErrStore("unavailable", ret.name) /\ ret.err = ret.seen.err

\* C19: GetDeployedRelease, canDelete and GetCurrent change nothing: the
\* store and the calls in flight are as before in every outcome, and the call
\* has made no create, update, purge or annotation.
Queries == {"GetDeployedRelease", "canDelete", "GetCurrent"}

C19_QueriesReadOnly ==
    [][(CallStarts /\ StartedCall.op \in Queries) =>
          /\ store' = store
          /\ pc' = pc /\ frame' = frame
          /\ ret' = StartedCall
          /\ ret'.creates = 0 /\ ret'.updates = 0
          /\ ret'.purges = 0 /\ ret'.annots = 0]_vars

C19_Witness ==
    /\ ret.op = "canDelete" /\ ret.ok /\ ret.err = Nil
    /\ ret.seen.rel.code = Status_DEPLOYED
    /\ store[ret.name] = Stored(Status_DEPLOYED, InitialManifest)

\* ------------------------------------------------- GetCurrent's grouping
\* GetCurrent over longer answers of the store's list call than Spec draws.
MaxGroupLen == 3

GroupResponses == UNION {[1..n -> ListRecords] : n \in 0..MaxGroupLen}

InitList ==
    /\ store = [n \in Ids |-> Absent]
    /\ pc = [p \in Procs |-> "idle"]
    /\ frame = [p \in Procs |-> NoCall]
    /\ ret = NoCall
    /\ deletedOk = [n \in Ids |-> FALSE]
    /\ calls = 0
    /\ active = {1}
    /\ names = {"relA"}
    /\ naming = NoNaming

NextList ==
    \/ \E p \in Procs, r \in GroupResponses : GetCurrentCall(p, FALSE, r, FALSE)
    \/ \E p \in Procs, l \in BOOLEAN : GetCurrentCall(p, TRUE, << >>, l)

SpecList == InitList /\ [][NextList]_vars

\* the names of the releases of namespace ns, in the order of the list
NamesIn(releases, ns) ==
    LET RECURSIVE Pick(_)
        Pick(i) == IF i > Len(releases) THEN << >>
                   ELSE IF releases[i].Namespace = ns
                        THEN << [Name |-> releases[i].Name] >> \o Pick(i + 1)
                        ELSE Pick(i + 1)
    IN  Pick(1)

\* C11: when the list call succeeds, the map GetCurrent returns has exactly
\* the namespaces of the listed releases as keys, and for each of them the
\* names of its releases in the order of the list, duplicates included.
C11_GroupedByNamespace ==
    (ret.op = "GetCurrent" /\ ~ret.faulted) =>
        /\ ~ret.list.isNil /\ ret.err = Nil
        /\ DOMAIN ret.list.m = {ret.listed[i].Namespace : i \in DOMAIN ret.listed}
        /\ \A ns \in DOMAIN ret.list.m :
               /\ ret.list.m[ns] # << >>
               /\ ret.list.m[ns] = NamesIn(ret.listed, ns)

C11_Witness ==
    /\ ret.op = "GetCurrent" /\ ~ret.faulted
    /\ ret.listed = << [Name |-> "relB", Namespace |-> "ns1"],
                       [Name |-> "relA", Namespace |-> "default"],
                       [Name |-> "relB", Namespace |-> "ns1"] >>
    /\ DOMAIN ret.list.m = {"default", "ns1"}
    /\ ret.list.m["ns1"] = << [Name |-> "relB"], [Name |-> "relB"] >>

\* ---------------------------------------------------------- GetReleaseName
\* GetReleaseName applied to two FluxHelmReleases; namespaces and names are
\* DNS labels, which may hold a "-".
NamedNamespaces == {"", "default", "a", "a-b"}
NamedNames == {"foo", "c", "b-c"}
NamedOverrides == {"", "bar"}
NamedFhrs == [Namespace : NamedNamespaces, Name : NamedNames, ReleaseName : NamedOverrides]

InitNaming ==
    /\ store = [n \in Ids |-> Absent]
    /\ pc = [p \in Procs |-> "idle"]
    /\ frame = [p \in Procs |-> NoCall]
    /\ ret = NoCall
    /\ deletedOk = [n \in Ids |-> FALSE]
    /\ calls = 0
    /\ active = {1}
    /\ names = {"relA"}
    /\ \E x \in NamedFhrs, y \in NamedFhrs :
           naming = [NoNaming EXCEPT !.fhr = [w \in {"a", "b"} |-> IF w = "a" THEN x ELSE y]]

GetReleaseNameCall(w) ==
    /\ naming' = [naming EXCEPT !.id[w] = GetReleaseName(naming.fhr[w]),
                                !.named[w] = TRUE]
    /\ UNCHANGED << store, pc, frame, ret, deletedOk, calls, active, names >>

NextNaming == \E w \in {"a", "b"} : GetReleaseNameCall(w)

SpecNaming == InitNaming /\ [][NextNaming]_vars

NamespaceOrDefault(fhr) == IF fhr.Namespace = "" THEN "default" ELSE fhr.Namespace

\* C12: GetReleaseName returns the override when there is one, whatever the
\* namespace and the name, and "<namespace>-<name>" otherwise, with "default"
\* for an empty namespace: "default-foo" for the name foo alone.
C12_ReleaseName ==
    \A w \in {"a", "b"} :
        naming.named[w] =>
            LET fhr == naming.fhr[w]
            IN  /\ fhr.ReleaseName # "" => naming.id[w] = fhr.ReleaseName
                /\ fhr.ReleaseName = "" =>
                       naming.id[w] = NamespaceOrDefault(fhr) \o "-" \o fhr.Name
                /\ (fhr.ReleaseName = "" /\ fhr.Namespace = "" /\ fhr.Name = "foo") =>
                       naming.id[w] = "default-foo"
                /\ fhr.ReleaseName = "bar" => naming.id[w] = "bar"

C12_Witness ==
    /\ naming.named["a"] /\ naming.named["b"]
    /\ naming.fhr["a"] = [Namespace |-> "", Name |-> "foo", ReleaseName |-> ""]
    /\ naming.id["a"] = "default-foo"
    /\ naming.fhr["b"] = [Namespace |-> "a", Name |-> "c", ReleaseName |-> "bar"]
    /\ naming.id["b"] = "bar"

\* C13: two FluxHelmReleases without an override that differ in namespace
\* (the default counted for the empty one) or in name get different release
\* names.
C13_DistinctReleaseNames ==
    (/\ naming.named["a"] /\ naming.named["b"]
     /\ naming.fhr["a"].ReleaseName = "" /\ naming.fhr["b"].ReleaseName = ""
     /\ << NamespaceOrDefault(naming.fhr["a"]), naming.fhr["a"].Name >>
            # << NamespaceOrDefault(naming.fhr["b"]), naming.fhr["b"].Name >>)
        => naming.id["a"] # naming.id["b"]

\* -------------------------------------------------------- concurrent calls
\* Two callers at once.  With names = Ids each caller has a release name of
\* its own (at most one call in flight per name); with names = {"relA"} both
\* work on the same name.  The arguments of Install are well formed: what
\* Install does with others, it does before its first round trip.
Callers == {1, 2}

CallerNames(p) ==
    IF names = Ids THEN {IF p = 1 THEN "relA" ELSE "relB"} ELSE names

GoodFhrs == {f \in Fhrs : f.ChartGitPath # "" /\ f.ValuesOK}

InitConc ==
    /\ store \in [Ids -> {Absent} \cup {Stored(c, InitialManifest) : c \in StatusCodes}]
    /\ pc = [p \in Procs |-> "idle"]
    /\ frame = [p \in Procs |-> NoCall]
    /\ ret = NoCall
    /\ deletedOk = [n \in Ids |-> FALSE]
    /\ calls = 0
    /\ active = Callers
    /\ names \in {Ids, {"relA"}}
    /\ naming = NoNaming

NextConc ==
    \/ \E p \in Callers, f \in BOOLEAN :
           \E n \in CallerNames(p) : GetDeployedReleaseCall(p, n, f)
    \/ \E p \in Callers, f \in BOOLEAN :
           \E n \in CallerNames(p) : DeleteCall(p, n, f)
    \/ \E p \in Callers, f \in BOOLEAN : DeletePurge(p, f)
    \/ \E p \in Callers, fhr \in GoodFhrs, a \in ValidActions, o \in Opts, f \in BOOLEAN :
           \E n \in CallerNames(p) : InstallCall(p, n, fhr, a, o, f)
    \/ \E p \in Callers, out \in {"exit 0", "exit 1", "timeout"} : AnnotateDone(p, out)

SpecConc == InitConc /\ [][NextConc]_vars

OwnNames == names = Ids
NameOf(p) == IF p = 1 THEN "relA" ELSE "relB"

\* The step is one of caller q.
StepBy(q) == pc'[q] # pc[q] \/ (CallStarts /\ StartedCall.proc = q)

\* C14: when the callers work on different names, a step of one caller
\* changes neither the release of the other nor the call the other is in, and
\* each round trip of a call finds its release as the call's round trip
\* before left it: the call returns, and leaves its release, as it does when
\* it runs alone.
C14_DifferentNamesIndependent ==
    /\ [](OwnNames =>
             \A p \in Callers :
                 /\ pc[p] = "purge" =>
                        /\ store[NameOf(p)].present
                        /\ ReleaseOf(NameOf(p), store[NameOf(p)]) = frame[p].seen.rel
                 /\ pc[p] = "annotating" => store[NameOf(p)] = frame[p].after
                 /\ pc[p] # "idle" => frame[p].name = NameOf(p))
    /\ [][OwnNames =>
             \A q \in Callers : \A p \in Callers \ {q} :
                 StepBy(q) =>
                     /\ store'[NameOf(p)] = store[NameOf(p)]
                     /\ pc'[p] = pc[p] /\ frame'[p] = frame[p]
                     /\ deletedOk'[NameOf(p)] = deletedOk[NameOf(p)]
                     /\ (ret' # ret => ret'.name = NameOf(q))]_vars

C14_Witness ==
    /\ OwnNames
    /\ pc[1] = "purge" /\ frame[1].name = "relA"
    /\ ret.op = "Install" /\ ret.proc = 2 /\ ret.name = "relB" /\ ret.sent = "ok"
    /\ ~ret.opts.DryRun /\ store["relB"] = ret.after
    /\ ReleaseOf("relA", store["relA"]) = frame[1].seen.rel

\* C18: with at most one call in flight per name, the release a purge of
\* Delete reaches has the status deployed or failed at that moment.
C18_PurgeFindsDeletable ==
    (OwnNames /\ ret.op = "Delete" /\ ret.purges = 1) =>
        /\ ret.atPurge.present
        /\ ret.atPurge.code \in {Status_DEPLOYED, Status_FAILED}
        /\ ret.atPurge.code = ret.seen.rel.code

C18_Witness ==
    /\ OwnNames /\ ret.op = "Delete" /\ ret.purges = 1 /\ ret.proc = 2
    /\ ret.atPurge = Stored(Status_FAILED, InitialManifest) /\ ret.err = Nil
    /\ ~store["relB"].present
    /\ pc[1] = "annotating"

\* The same of two callers on one name: the core has no lock, and this fails
\* (a Delete purges a release another call has purged or installed anew).
C18_PurgeFindsDeletableWhenRacing ==
    (~OwnNames /\ ret.op = "Delete" /\ ret.purges = 1) =>
        /\ ret.atPurge.present
        /\ ret.atPurge.code \in {Status_DEPLOYED, Status_FAILED}
        /\ ret.atPurge = [present |-> TRUE, code |-> ret.seen.rel.code,
                          manifest |-> ret.seen.rel.manifest]

\* ------------------------------------------------- the annotation deadline
\* kubectl may never end on its own; the context of annotateResources expires
\* after 20 s whatever kubectl and the other callers do, and the expiry kills
\* the process, which ends cmd.CombinedOutput().  Nothing is assumed of the
\* steps "exit 0" and "exit 1", nor of calls being started.
\* The store starts with each release missing or deployed.
InitLive ==
    /\ store \in [Ids -> {Absent, Stored(Status_DEPLOYED, InitialManifest)}]
    /\ pc = [p \in Procs |-> "idle"]
    /\ frame = [p \in Procs |-> NoCall]
    /\ ret = NoCall
    /\ deletedOk = [n \in Ids |-> FALSE]
    /\ calls = 0
    /\ active = Callers
    /\ names \in {Ids, {"relA"}}
    /\ naming = NoNaming

SpecLive ==
    /\ InitLive
    /\ [][NextConc]_vars
    /\ \A p \in Callers : WF_vars(AnnotateDone(p, "timeout"))

\* C20: an Install or Upgrade that waits for the annotation returns to its
\* caller, and a return by the deadline carries the release of the store
\* call together with the error of the killed kubectl.
C20_AnnotationReturns ==
    /\ \A p \in Callers : (pc[p] = "annotating") ~> (pc[p] = "idle")
    /\ [][\A p \in Callers :
             (AnnotationReturns(p) /\ ret'.err = ErrKubectl("signal: killed")) =>
                 /\ ret'.rel = ReleaseOf(ret'.name, ret'.after)
                 /\ ~ret'.rel.isNil /\ ~ret'.opts.DryRun
                 /\ frame'[p] = NoCall /\ store' = store]_vars

C20_Witness ==
    /\ ret.op = "Install" /\ ~ret.opts.DryRun /\ ret.sent = "ok"
    /\ ret.err = ErrKubectl("signal: killed") /\ ~ret.rel.isNil
    /\ pc[ret.proc] = "idle"
    /\ \E q \in Callers \ {ret.proc} : pc[q] = "annotating"

====
